---- MODULE Spec2Model ----
(***************************************************************************)
(* A model of the go-logger request middleware: the bypass-path matcher    *)
(* (Ant-style glob and regular-expression dialects, method filter), the    *)
(* client IP resolution, the context attributes and the per-request        *)
(* middleware state machine.                                               *)
(*                                                                         *)
(* A Go string is modelled as a sequence of one-character strings, so that *)
(* indexing, splitting, trimming and folding are computed as the code      *)
(* computes them.                                                          *)
(***************************************************************************)
EXTENDS Integers, Sequences, FiniteSets, TLC

VARIABLES
    logger,              \* the Logger's configuration (requestIDPrefix, fixedKeyValues, extraFields)
    logRequestDetails,   \* LoggerMiddleware argument
    logCompleteTime,     \* LoggerMiddleware argument
    compiledBypassList,  \* compileBypassPatterns(bypassList), captured by the closure
    pc,                  \* per request: where the wrapped handler func is
    request,             \* per request: the *http.Request fields the middleware reads
    ctx,                 \* per request: the context the middleware bound (r.Context())
    shouldSkipLogging,   \* per request: the middleware's local of that name
    manualLogs,          \* per request: number of log calls the handler made
    records,             \* the sink: per request, the records its goroutine emitted, in order
    call,                \* a call of one of the package's pure functions: arguments and result
    heap,                \* the context.Context values allocated by the context calls
    held,                \* the context calls made: argument, returned context, what it held
    loggerInstance       \* var loggerInstance *Logger of the package

vars == <<logger, logRequestDetails, logCompleteTime, compiledBypassList, pc, request,
          ctx, shouldSkipLogging, manualLogs, records, call, heap, held, loggerInstance>>

contextVars == <<heap, held>>

middlewareVars == <<logger, logRequestDetails, logCompleteTime, compiledBypassList, pc,
                    request, ctx, shouldSkipLogging, manualLogs, records>>

(***************************************************************************)
(* Bounds of the model.                                                    *)
(***************************************************************************)
MaxRequests == 2
MaxManualLogs == 1
MaxGlobLen == 3
MaxPathLen == 3
MaxRegexLen == 3
MaxMethodsLen == 3
MaxAddrLen == 3

(***************************************************************************)
(* Go strings.                                                             *)
(***************************************************************************)
\* All strings over alphabet A of length at most n.
RECURSIVE StrsOfLen(_, _)
StrsOfLen(A, n) ==
    IF n = 0 THEN {<<>>}
    ELSE {Append(s, c) : s \in StrsOfLen(A, n - 1), c \in A}

Strs(A, n) == UNION {StrsOfLen(A, k) : k \in 0..n}

UpperCase == <<"A","B","C","D","E","F","G","H","I","J","K","L","M",
               "N","O","P","Q","R","S","T","U","V","W","X","Y","Z">>
LowerCase == <<"a","b","c","d","e","f","g","h","i","j","k","l","m",
               "n","o","p","q","r","s","t","u","v","w","x","y","z">>

\* The white space strings.TrimSpace removes (ASCII part).
WhiteSpace == {" ", "\t", "\n", "\r"}

\* Simple case folding of one (ASCII) character, as strings.EqualFold does.
FoldChar(c) ==
    IF \E i \in 1..26 : UpperCase[i] = c
    THEN LowerCase[CHOOSE i \in 1..26 : UpperCase[i] = c]
    ELSE c

\* strings.EqualFold
EqualFold(s, t) ==
    /\ Len(s) = Len(t)
    /\ \A i \in 1..Len(s) : FoldChar(s[i]) = FoldChar(t[i])

\* strings.Contains(s, c) for a one-character c
Contains(s, c) == \E i \in 1..Len(s) : s[i] = c

\* Index of the first c in s (1-based), 0 if none.
IndexOf(s, c) ==
    IF Contains(s, c) THEN CHOOSE i \in 1..Len(s) : s[i] = c /\ \A j \in 1..(i-1) : s[j] # c
    ELSE 0

\* Index of the last c in s (1-based), 0 if none: strings.LastIndexByte + 1
LastIndexOf(s, c) ==
    IF Contains(s, c) THEN CHOOSE i \in 1..Len(s) : s[i] = c /\ \A j \in (i+1)..Len(s) : s[j] # c
    ELSE 0

\* strings.Split(s, sep) for a one-character sep: always at least one part.
RECURSIVE Split(_, _)
Split(s, sep) ==
    LET i == IndexOf(s, sep) IN
    IF i = 0 THEN <<s>>
    ELSE <<SubSeq(s, 1, i - 1)>> \o Split(SubSeq(s, i + 1, Len(s)), sep)

\* strings.TrimLeft / TrimRight / Trim with a cutset
RECURSIVE TrimLeft(_, _)
TrimLeft(s, cut) ==
    IF s # <<>> /\ Head(s) \in cut THEN TrimLeft(Tail(s), cut) ELSE s

RECURSIVE TrimRight(_, _)
TrimRight(s, cut) ==
    IF s # <<>> /\ s[Len(s)] \in cut THEN TrimRight(SubSeq(s, 1, Len(s) - 1), cut) ELSE s

Trim(s, cut) == TrimRight(TrimLeft(s, cut), cut)

\* strings.TrimSpace
TrimSpace(s) == Trim(s, WhiteSpace)

(***************************************************************************)
(* Segment wildcard matching.                                              *)
(***************************************************************************)
\* The loop `for sIdx < sLen` of matchWildcard and the code after it; the
\* indices are the code's 0-based indices.  The result is the return value.
RECURSIVE matchWildcardLoop(_, _, _, _, _, _)
matchWildcardLoop(pattern, str, pIdx, sIdx, starIdx, matchIdx) ==
    LET pLen == Len(pattern)
        sLen == Len(str)
        \* for pIdx < pLen && pattern[pIdx] == '*' { pIdx++ }
        skipStars[p \in 0..pLen] ==
            IF p < pLen /\ pattern[p + 1] = "*" THEN skipStars[p + 1] ELSE p
    IN
    IF sIdx < sLen THEN
        IF pIdx < pLen /\ (pattern[pIdx + 1] = "?" \/ pattern[pIdx + 1] = str[sIdx + 1])
        THEN matchWildcardLoop(pattern, str, pIdx + 1, sIdx + 1, starIdx, matchIdx)
        ELSE IF pIdx < pLen /\ pattern[pIdx + 1] = "*"
        THEN matchWildcardLoop(pattern, str, pIdx + 1, sIdx, pIdx, sIdx)
        ELSE IF starIdx # -1
        THEN matchWildcardLoop(pattern, str, starIdx + 1, matchIdx + 1, starIdx, matchIdx + 1)
        ELSE FALSE
    ELSE skipStars[pIdx] = pLen

\* A mutant of matchWildcard: '?' is compared literally.
matchWildcardNoQuestion(pattern, str) ==
    LET q == [i \in 1..Len(pattern) |-> IF pattern[i] = "?" THEN "\\" ELSE pattern[i]]
    IN matchWildcardLoop(q, str, 0, 0, -1, 0)

matchWildcard(pattern, str) == matchWildcardLoop(pattern, str, 0, 0, -1, 0)

matchSegment(pattern, segment) ==
    IF pattern = <<"*">> THEN TRUE ELSE matchWildcard(pattern, segment)

(***************************************************************************)
(* Ant-style path matching.                                                *)
(***************************************************************************)
\* matchAntParts from the state (patternIdx, pathIdx) of its first loop on.
RECURSIVE matchAntPartsFrom(_, _, _, _)
matchAntPartsFrom(patternParts, pathParts, patternIdx, pathIdx) ==
    LET nPat == Len(patternParts)
        nPath == Len(pathParts)
        \* for patternIdx < len(patternParts) && patternParts[patternIdx] == "**" { patternIdx++ }
        skipDoubleStars[p \in 0..nPat] ==
            IF p < nPat /\ patternParts[p + 1] = <<"*", "*">> THEN skipDoubleStars[p + 1] ELSE p
    IN
    IF patternIdx < nPat /\ pathIdx < nPath THEN
        IF patternParts[patternIdx + 1] = <<"*", "*">> THEN
            IF patternIdx = nPat - 1 THEN TRUE
            ELSE \E i \in pathIdx..nPath :
                    matchAntPartsFrom(SubSeq(patternParts, patternIdx + 2, nPat),
                                      SubSeq(pathParts, i + 1, nPath), 0, 0)
        ELSE IF ~matchSegment(patternParts[patternIdx + 1], pathParts[pathIdx + 1]) THEN FALSE
        ELSE matchAntPartsFrom(patternParts, pathParts, patternIdx + 1, pathIdx + 1)
    ELSE skipDoubleStars[patternIdx] = nPat /\ pathIdx = nPath

\* A mutant of matchAntParts: '**' takes one path segment or more.
RECURSIVE matchAntPartsNoEmpty(_, _)
matchAntPartsNoEmpty(patternParts, pathParts) ==
    IF patternParts = <<>> THEN pathParts = <<>>
    ELSE IF Head(patternParts) = <<"*", "*">>
    THEN \E n \in 1..Len(pathParts) :
            matchAntPartsNoEmpty(Tail(patternParts), SubSeq(pathParts, n + 1, Len(pathParts)))
    ELSE /\ pathParts # <<>>
         /\ matchSegment(Head(patternParts), Head(pathParts))
         /\ matchAntPartsNoEmpty(Tail(patternParts), Tail(pathParts))

\* A mutant of matchAntParts: '**' is matched like any other segment.
matchAntPartsSegmentwise(patternParts, pathParts) ==
    /\ Len(patternParts) = Len(pathParts)
    /\ \A i \in 1..Len(patternParts) : matchSegment(patternParts[i], pathParts[i])

matchAntParts(patternParts, pathParts) == matchAntPartsFrom(patternParts, pathParts, 0, 0)

matchAntPattern(pattern, path) ==
    IF pattern = path THEN TRUE
    ELSE matchAntParts(Split(Trim(pattern, {"/"}), "/"), Split(Trim(path, {"/"}), "/"))

(***************************************************************************)
(* Method filter.                                                          *)
(***************************************************************************)
\* A mutant of matchMethod: only the first entry of a list is looked at.
matchMethodFirstOnly(methods, method) ==
    IF methods = <<>> THEN TRUE
    ELSE EqualFold(TrimSpace(Split(methods, ",")[1]), method)

matchMethod(methods, method) ==
    IF methods = <<>> THEN TRUE
    ELSE IF ~Contains(methods, ",") THEN EqualFold(TrimSpace(methods), method)
    ELSE LET parts == Split(methods, ",")
         IN \E i \in 1..Len(parts) : EqualFold(TrimSpace(parts[i]), method)

(***************************************************************************)
(* Regular expressions: Go's regexp (RE2 syntax, Perl flags) restricted to *)
(* the pattern characters of RegexSyntaxChars plus literals: literals,     *)
(* '.', character classes '[...]' and '[^...]', groups, concatenation,     *)
(* alternation '|', repetition '*', and the assertions '^' and '$' (begin  *)
(* and end of text).  regexp.Compile is Parse to a syntax tree or an       *)
(* error; MatchString is an unanchored search.                             *)
(***************************************************************************)
RegexSyntaxChars == {"^", "$", "|", "*", "(", ")", "[", "]", "."}

ParseError == [ok |-> FALSE, node |-> [op |-> "empty"], rest |-> <<>>]

\* A character class: '[', an optional '^', then characters up to the next
\* ']' (a ']' that comes first is a literal); a class that is not closed is
\* an error ("missing closing ]").
ParseClass(t) ==
    LET neg == Len(t) >= 2 /\ t[2] = "^"
        body == SubSeq(t, IF neg THEN 3 ELSE 2, Len(t))
        closeAt == IF Len(body) >= 2 /\ \E i \in 2..Len(body) : body[i] = "]"
                   THEN CHOOSE i \in 2..Len(body) :
                            body[i] = "]" /\ \A j \in 2..(i - 1) : body[j] # "]"
                   ELSE 0
    IN IF closeAt = 0 THEN ParseError
       ELSE [ok |-> TRUE,
             node |-> [op |-> "class", neg |-> neg,
                       set |-> {body[i] : i \in 1..(closeAt - 1)}],
             rest |-> SubSeq(body, closeAt + 1, Len(body))]

\* The recursive-descent parser, one level of the grammar per mode:
\*   "alternation": concat ('|' concat)*     ('|' binds weakest)
\*   "concat":      a possibly empty run of repeats, up to the end, '|' or ')'
\*   "repeat":      an operand and at most one '*'.  A '*' with no operand
\*                  before it is an error ("missing argument to repetition
\*                  operator"), and so is a second '*' ("invalid nested
\*                  repetition operator"): the caller finds it at the head
\*                  of what is left.
\*   "atom":        a group, a class, an assertion, '.', or a literal
RECURSIVE Parse(_, _)
Parse(mode, t) ==
    CASE mode = "alternation" ->
            LET c == Parse("concat", t) IN
            IF ~c.ok THEN ParseError
            ELSE IF c.rest # <<>> /\ Head(c.rest) = "|"
            THEN LET a == Parse("alternation", Tail(c.rest)) IN
                 IF ~a.ok THEN ParseError
                 ELSE [ok |-> TRUE, node |-> [op |-> "alt", l |-> c.node, r |-> a.node],
                       rest |-> a.rest]
            ELSE c
      [] mode = "concat" ->
            IF t = <<>> \/ Head(t) \in {"|", ")"}
            THEN [ok |-> TRUE, node |-> [op |-> "empty"], rest |-> t]
            ELSE LET r == Parse("repeat", t) IN
                 IF ~r.ok THEN ParseError
                 ELSE LET c == Parse("concat", r.rest) IN
                      IF ~c.ok THEN ParseError
                      ELSE [ok |-> TRUE, node |-> [op |-> "cat", l |-> r.node, r |-> c.node],
                            rest |-> c.rest]
      [] mode = "repeat" ->
            IF Head(t) = "*" THEN ParseError
            ELSE LET a == Parse("atom", t) IN
                 IF ~a.ok THEN ParseError
                 ELSE IF a.rest # <<>> /\ Head(a.rest) = "*"
                 THEN [ok |-> TRUE, node |-> [op |-> "star", sub |-> a.node],
                       rest |-> Tail(a.rest)]
                 ELSE a
      [] mode = "atom" ->
            IF Head(t) = "(" THEN
                LET a == Parse("alternation", Tail(t)) IN
                IF a.ok /\ a.rest # <<>> /\ Head(a.rest) = ")"
                THEN [ok |-> TRUE, node |-> [op |-> "group", sub |-> a.node],
                      rest |-> Tail(a.rest)]
                ELSE ParseError                      \* missing closing )
            ELSE IF Head(t) = "[" THEN ParseClass(t)
            ELSE IF Head(t) = "^" THEN [ok |-> TRUE, node |-> [op |-> "bot"], rest |-> Tail(t)]
            ELSE IF Head(t) = "$" THEN [ok |-> TRUE, node |-> [op |-> "eot"], rest |-> Tail(t)]
            ELSE IF Head(t) = "." THEN [ok |-> TRUE, node |-> [op |-> "any"], rest |-> Tail(t)]
            ELSE [ok |-> TRUE, node |-> [op |-> "lit", c |-> Head(t)], rest |-> Tail(t)]

\* regexp.Compile(expr): (re, err).  Anything left over is an unexpected ')'.
Compile(expr) ==
    LET a == Parse("alternation", expr) IN
    IF a.ok /\ a.rest = <<>> THEN [err |-> FALSE, re |-> a.node]
    ELSE [err |-> TRUE, re |-> [op |-> "empty"]]

\* The positions (0..Len(s)) at which a match of node that starts at
\* position i of s can end.  For a repetition: the positions reached by zero
\* or more matches of the operand in a row (at most Len(s) + 1 rounds add a
\* position).
RECURSIVE MatchEnds(_, _, _)
MatchEnds(node, s, i) ==
    CASE node.op = "empty" -> {i}
      [] node.op = "lit"   -> IF i < Len(s) /\ s[i + 1] = node.c THEN {i + 1} ELSE {}
      [] node.op = "any"   -> IF i < Len(s) /\ s[i + 1] # "\n" THEN {i + 1} ELSE {}
      [] node.op = "class" -> IF i < Len(s) /\ ((s[i + 1] \in node.set) # node.neg)
                              THEN {i + 1} ELSE {}
      [] node.op = "bot"   -> IF i = 0 THEN {i} ELSE {}
      [] node.op = "eot"   -> IF i = Len(s) THEN {i} ELSE {}
      [] node.op = "group" -> MatchEnds(node.sub, s, i)
      [] node.op = "cat"   -> UNION {MatchEnds(node.r, s, k) : k \in MatchEnds(node.l, s, i)}
      [] node.op = "alt"   -> MatchEnds(node.l, s, i) \cup MatchEnds(node.r, s, i)
      [] node.op = "star"  ->
            LET reach[n \in 0..(Len(s) + 1)] ==
                    IF n = 0 THEN {i}
                    ELSE reach[n - 1] \cup
                         UNION {MatchEnds(node.sub, s, k) : k \in reach[n - 1]}
            IN reach[Len(s) + 1]

\* (*Regexp).MatchString: does s contain any match of re
MatchString(re, s) == \E i \in 0..Len(s) : MatchEnds(re, s, i) # {}

\* regexp.MatchString(pattern, s): (matched, err)
RegexpMatchString(pattern, s) ==
    LET c == Compile(pattern) IN
    IF c.err THEN [matched |-> FALSE, err |-> TRUE]
    ELSE [matched |-> MatchString(c.re, s), err |-> FALSE]

(***************************************************************************)
(* Bypass rules.                                                           *)
(***************************************************************************)
\* The unexported field regex *regexp.Regexp: nil, or a compiled pattern.
NilRegex == [nil |-> TRUE, re |-> [op |-> "empty"]]

\* A BypassRequestLogging value as the caller writes it (regex unset).
BypassRule(path, methods, isRegex) ==
    [Path |-> path, Methods |-> methods, IsRegex |-> isRegex, regex |-> NilRegex]

compileBypassPatterns(patterns) ==
    [i \in 1..Len(patterns) |->
        LET p == patterns[i]
            c == Compile(<<"^">> \o p.Path \o <<"$">>)
        IN IF p.IsRegex /\ ~c.err
           THEN [p EXCEPT !.regex = [nil |-> FALSE, re |-> c.re]]
           ELSE p]

\* A mutant of matchRegex: a pattern that does not compile matches.
matchRegexFailClosed(bypass, path) ==
    IF ~bypass.regex.nil THEN MatchString(bypass.regex.re, path)
    ELSE LET m == RegexpMatchString(<<"^">> \o bypass.Path \o <<"$">>, path)
         IN IF m.err THEN TRUE ELSE m.matched

matchRegex(bypass, path) ==
    IF ~bypass.regex.nil THEN MatchString(bypass.regex.re, path)
    ELSE LET m == RegexpMatchString(<<"^">> \o bypass.Path \o <<"$">>, path)
         IN IF m.err THEN FALSE ELSE m.matched

\* A mutant of shouldBypassMiddlewareLogging: only the first rule decides.
shouldBypassFirstRuleOnly(bypassList, path, method) ==
    /\ bypassList # <<>>
    /\ matchMethod(bypassList[1].Methods, method)
    /\ IF bypassList[1].IsRegex THEN matchRegex(bypassList[1], path)
       ELSE matchAntPattern(bypassList[1].Path, path)

\* A mutant of shouldBypassFrom: a rule whose method filter rejects the
\* method ends the loop (break for continue).
RECURSIVE shouldBypassFromBreak(_, _, _, _)
shouldBypassFromBreak(bypassList, path, method, i) ==
    IF i > Len(bypassList) THEN FALSE
    ELSE LET bypass == bypassList[i] IN
         IF ~matchMethod(bypass.Methods, method) THEN FALSE
         ELSE IF bypass.IsRegex
         THEN IF matchRegex(bypass, path) THEN TRUE
              ELSE shouldBypassFromBreak(bypassList, path, method, i + 1)
         ELSE IF matchAntPattern(bypass.Path, path) THEN TRUE
              ELSE shouldBypassFromBreak(bypassList, path, method, i + 1)

\* The loop of shouldBypassMiddlewareLogging from rule i on (1-based).
RECURSIVE shouldBypassFrom(_, _, _, _)
shouldBypassFrom(bypassList, path, method, i) ==
    IF i > Len(bypassList) THEN FALSE
    ELSE LET bypass == bypassList[i] IN
         IF ~matchMethod(bypass.Methods, method)
         THEN shouldBypassFrom(bypassList, path, method, i + 1)
         ELSE IF bypass.IsRegex
         THEN IF matchRegex(bypass, path) THEN TRUE
              ELSE shouldBypassFrom(bypassList, path, method, i + 1)
         ELSE IF matchAntPattern(bypass.Path, path) THEN TRUE
              ELSE shouldBypassFrom(bypassList, path, method, i + 1)

shouldBypassMiddlewareLogging(bypassList, path, method) ==
    shouldBypassFrom(bypassList, path, method, 1)

(***************************************************************************)
(* Client IP resolution.                                                   *)
(***************************************************************************)
\* net.SplitHostPort(hostport): (host, port, err)
SplitHostPort(hostport) ==
    LET n == Len(hostport)
        i == LastIndexOf(hostport, ":") - 1          \* 0-based; -1 if none
        end == IndexOf(hostport, "]") - 1            \* 0-based; -1 if none
        bracketed == hostport[1] = "["
        Fail == [host |-> <<>>, port |-> <<>>, err |-> TRUE]
        host == IF bracketed THEN SubSeq(hostport, 2, end) ELSE SubSeq(hostport, 1, i)
        j == IF bracketed THEN 1 ELSE 0
        k == IF bracketed THEN end + 1 ELSE 0
    IN
    IF i < 0 THEN Fail                                           \* missing port
    ELSE IF bracketed /\ end < 0 THEN Fail                       \* missing ']'
    ELSE IF bracketed /\ end + 1 = n THEN Fail                   \* missing port
    ELSE IF bracketed /\ end + 1 # i THEN Fail                   \* too many colons / missing port
    ELSE IF ~bracketed /\ Contains(host, ":") THEN Fail          \* too many colons
    ELSE IF Contains(SubSeq(hostport, j + 1, n), "[") THEN Fail  \* unexpected '['
    ELSE IF Contains(SubSeq(hostport, k + 1, n), "]") THEN Fail  \* unexpected ']'
    ELSE [host |-> host, port |-> SubSeq(hostport, i + 2, n), err |-> FALSE]

\* r.Header.Get(name): the header's value, "" when the header is absent.
HeaderGet(r, name) == r.Header[name]

getRealUserIP(r) ==
    LET xff == HeaderGet(r, "X-Forwarded-For")
        xri == HeaderGet(r, "X-Real-IP")
        xci == HeaderGet(r, "X-Client-IP")
        hp  == SplitHostPort(r.RemoteAddr)
    IN
    IF xff # <<>> THEN TrimSpace(Split(xff, ",")[1])    \* len(ips) > 0 always holds
    ELSE IF xri # <<>> THEN xri
    ELSE IF xci # <<>> THEN xci
    ELSE IF hp.err THEN r.RemoteAddr
    ELSE hp.host

(***************************************************************************)
(* Context attributes.  A context.Context is the chain of (key, value)     *)
(* overlays derived from context.Background(), the most recent last; a     *)
(* key is a value of a Go type, so contextKey("user") and the string       *)
(* "user" are different keys.                                              *)
(***************************************************************************)
Background == <<>>

\* A *Logger: nil, or the Logger that call number id of NewLogger allocated,
\* with the fields NewLogger copied from the config.
NilLogger == [nil |-> TRUE, id |-> 0, l |-> <<>>]
LoggerAt(id, l) == [nil |-> FALSE, id |-> id, l |-> l]

requestIdKey == [type |-> "contextKey", name |-> "request_id"]
userKey == [type |-> "contextKey", name |-> "user"]

requestIdContextKey == "request_id"
userContextKey == "user"

\* Go values of type any.
Nil == [type |-> "nil", v |-> <<>>]
StringValue(s) == [type |-> "string", v |-> s]

\* context.WithValue(parent, key, val)
WithValue(parent, key, val) == Append(parent, [key |-> key, val |-> val])

\* ctx.Value(key): the value of the most recent overlay with that key, or nil.
Value(c, key) ==
    IF \E i \in 1..Len(c) : c[i].key = key
    THEN c[CHOOSE i \in 1..Len(c) : c[i].key = key /\ \A j \in (i + 1)..Len(c) : c[j].key # key].val
    ELSE Nil

SetRequestID(c, requestId) == WithValue(c, requestIdKey, StringValue(requestId))

\* requestId, ok := ctx.Value(requestIdKey).(string)
GetRequestID(c) ==
    LET x == Value(c, requestIdKey) IN
    IF x.type = "string" THEN [requestId |-> x.v, ok |-> TRUE]
    ELSE [requestId |-> <<>>, ok |-> FALSE]

SetUser(c, user) == WithValue(c, userKey, user)

GetUser(c) ==
    LET user == Value(c, userKey) IN [user |-> user, ok |-> user # Nil]

\* The text of the UUID that uuid.New() returns to request n (n >= 1), which
\* calls it once: never empty, and different for different requests.
DigitChars == <<"1", "2", "3", "4", "5", "6", "7", "8", "9">>
UUIDString(n) == <<"#", DigitChars[n]>>

\* l.requestIDPrefix + uuid.New().String(), called for request n
GenerateRequestID(l, n) == l.requestIDPrefix \o UUIDString(n)

\* A key of Go type string, as the extra fields use (ctx.Value(field)).
StringKey(field) == [type |-> "string", name |-> field]

\* A Go map[string]any is the function from its keys to their values; the
\* empty and the nil map are <<>>.  for k, v := range m visits the entries
\* in an order Go picks anew for every loop: RangeOrders(m) is the set of the
\* orders a loop can take.
RangeOrders(m) ==
    LET n == Cardinality(DOMAIN m) IN
    {order \in [1..n -> DOMAIN m] : \A a, b \in 1..n : a # b => order[a] # order[b]}

GetExtraFields(l, c) ==
    IF Len(l.extraFields) = 0 THEN [pairs |-> <<>>, ok |-> FALSE]
    ELSE LET present == {l.extraFields[i] : i \in
                            {j \in 1..Len(l.extraFields) :
                                Value(c, StringKey(l.extraFields[j])) # Nil}}
         IN [pairs |-> [field \in present |-> Value(c, StringKey(field))], ok |-> TRUE]

\* A mutant of combineAttributes: the user pair comes before the request id
\* pair and the extra fields after the caller's pairs.
combineAttributesReordered(l, c, keysAndValues, fixedOrder, extraOrder) ==
    LET rid == GetRequestID(c)
        usr == GetUser(c)
        ext == GetExtraFields(l, c)
    IN [i \in 1..Len(fixedOrder) |-> <<fixedOrder[i], l.fixedKeyValues[fixedOrder[i]]>>]
       \o (IF usr.ok THEN <<<<userContextKey, usr.user>>>> ELSE <<>>)
       \o (IF rid.ok THEN <<<<requestIdContextKey, StringValue(rid.requestId)>>>> ELSE <<>>)
       \o keysAndValues
       \o (IF ext.ok
           THEN [i \in 1..Len(extraOrder) |-> <<extraOrder[i], ext.pairs[extraOrder[i]]>>]
           ELSE <<>>)

\* combineAttributes: a sequence of <<key, value>> pairs.  fixedOrder and
\* extraOrder are the orders its two range loops take, over l.fixedKeyValues
\* and over the map GetExtraFields returned.
combineAttributes(l, c, keysAndValues, fixedOrder, extraOrder) ==
    LET rid == GetRequestID(c)
        usr == GetUser(c)
        ext == GetExtraFields(l, c)
    IN [i \in 1..Len(fixedOrder) |-> <<fixedOrder[i], l.fixedKeyValues[fixedOrder[i]]>>]
       \o (IF rid.ok THEN <<<<requestIdContextKey, StringValue(rid.requestId)>>>> ELSE <<>>)
       \o (IF usr.ok THEN <<<<userContextKey, usr.user>>>> ELSE <<>>)
       \o (IF ext.ok
           THEN [i \in 1..Len(extraOrder) |-> <<extraOrder[i], ext.pairs[extraOrder[i]]>>]
           ELSE <<>>)
       \o keysAndValues

\* A mutant of DetachContext: the user is not copied.
DetachContextWithoutUser(l, c, extraOrder) ==
    LET rid == GetRequestID(c)
        ext == GetExtraFields(l, c)
        c1 == IF rid.ok THEN SetRequestID(Background, rid.requestId) ELSE Background
    IN IF ext.ok
       THEN c1 \o [i \in 1..Len(extraOrder) |->
                      [key |-> StringKey(extraOrder[i]), val |-> ext.pairs[extraOrder[i]]]]
       ELSE c1

\* A mutant of DetachContext: the values are put on ctx itself.
DetachContextOnCtx(l, c, extraOrder) ==
    LET rid == GetRequestID(c)
        usr == GetUser(c)
        ext == GetExtraFields(l, c)
        c1 == IF rid.ok THEN SetRequestID(c, rid.requestId) ELSE c
        c2 == IF usr.ok THEN SetUser(c1, usr.user) ELSE c1
    IN IF ext.ok
       THEN c2 \o [i \in 1..Len(extraOrder) |->
                      [key |-> StringKey(extraOrder[i]), val |-> ext.pairs[extraOrder[i]]]]
       ELSE c2

\* DetachContext: the overlays it puts on context.Background(); extraOrder
\* is the order its range loop over the extra fields takes.
DetachContext(l, c, extraOrder) ==
    LET rid == GetRequestID(c)
        usr == GetUser(c)
        ext == GetExtraFields(l, c)
        c1 == IF rid.ok THEN SetRequestID(Background, rid.requestId) ELSE Background
        c2 == IF usr.ok THEN SetUser(c1, usr.user) ELSE c1
    IN IF ext.ok
       THEN c2 \o [i \in 1..Len(extraOrder) |->
                      [key |-> StringKey(extraOrder[i]), val |-> ext.pairs[extraOrder[i]]]]
       ELSE c2

\* l.Infow(ctx, msg, keysAndValues...): the record handed to the sink.  auto
\* is not part of the record: it tells whether the middleware itself (and
\* not the handler it wraps) made the call.
Infow(l, c, msg, keysAndValues, auto, fixedOrder, extraOrder) ==
    [level |-> "info", msg |-> msg,
     attrs |-> combineAttributes(l, c, keysAndValues, fixedOrder, extraOrder),
     auto |-> auto]

(***************************************************************************)
(* The strings the model is run on.                                        *)
(***************************************************************************)
sHealth == <<"/","h","e","a","l","t","h">>
sMetrics == <<"/","m","e","t","r","i","c","s">>
sMetricsExtra == <<"/","m","e","t","r","i","c","s","/","e","x","t","r","a">>
sOther == <<"/","o","t","h","e","r">>
sMetricsRegex == <<"^","/","m","e","t","r","i","c","s","$">>
sGET == <<"G","E","T">>
sPOST == <<"P","O","S","T">>
sGetLower == <<"g","e","t">>
sDELETE == <<"D","E","L","E","T","E">>
sGetPost == <<"G","E","T",",","P","O","S","T">>
sAddr == <<"9",":","8">>

\* The registry of the README's and the specification's scenario.
ScenarioRegistry ==
    <<BypassRule(sHealth, <<>>, FALSE), BypassRule(sMetricsRegex, sGET, TRUE)>>

NoHeaders == [h \in {"X-Forwarded-For", "X-Real-IP", "X-Client-IP"} |-> <<>>]

(***************************************************************************)
(* The middleware.  Each request r in Reqs is served once by the handler   *)
(* func LoggerMiddleware returns; requests are served concurrently, each   *)
(* in its own goroutine.  Nothing reads the sink, so it is kept as what    *)
(* each goroutine wrote to it, in order.                                   *)
(***************************************************************************)
Reqs == 1..MaxRequests

\* The Logger configurations NewLogger builds.
LoggerConfigs ==
    {[requestIDPrefix |-> p, fixedKeyValues |-> <<>>, extraFields |-> <<>>, devMode |-> FALSE] :
        p \in {<<>>, <<"R", "-">>}}

\* The bypassList arguments LoggerMiddleware is built with.
MiddlewareBypassLists ==
    { <<>>,
      ScenarioRegistry,
      <<BypassRule(<<"(">>, <<>>, TRUE), BypassRule(<<"/","*","*">>, sPOST, FALSE)>> }

\* The requests that arrive.
Requests ==
    {[Method |-> m, Path |-> p, RemoteAddr |-> sAddr, Header |-> NoHeaders] :
        m \in {sGET, sPOST}, p \in {sMetrics}}

NoRequest == [Method |-> <<>>, Path |-> <<>>, RemoteAddr |-> <<>>, Header |-> NoHeaders]
NoCall == [fn |-> "none"]

\* A mutant of requestContext: a bypassed request gets no request id.
requestContextUnlessBypassed(l, parent, requestId, skip) ==
    IF skip THEN parent ELSE SetRequestID(parent, requestId)

\* r.WithContext(l.SetRequestID(r.Context(), requestId)).Context(); skip is
\* the bypass decision, which the code does not consult here.
requestContext(l, parent, requestId, skip) == SetRequestID(parent, requestId)

\* A mutant of withContext: the context is bound for every request.
withContextShared(cs, r, c) == [q \in Reqs |-> c]

\* r = r.WithContext(c): the request of this call of the handler func, and
\* no other, carries c from here on.
withContext(cs, r, c) == [cs EXCEPT ![r] = c]

\* A mutant of logsIncoming: no "Incoming request" record is emitted.
logsIncomingNever(details, skip) == FALSE

\* A mutant of logsIncoming: the bypass decision is ignored.
logsIncomingIgnoringBypass(details, skip) == details

\* if logRequestDetails && !shouldSkipLogging
logsIncoming(details, skip) == details /\ ~skip

\* if logCompleteTime && !shouldSkipLogging
logsCompleted(complete, skip) == complete /\ ~skip

\* The requestData map of the "Incoming request" record (the fields of the
\* request the model carries).
requestData(r) ==
    [type |-> "map",
     v |-> [method |-> r.Method, path |-> r.Path, user_ip |-> getRealUserIP(r),
            remote_addr |-> r.RemoteAddr,
            x_forwarded_for |-> HeaderGet(r, "X-Forwarded-For"),
            x_real_ip |-> HeaderGet(r, "X-Real-IP"),
            x_client_ip |-> HeaderGet(r, "X-Client-IP")]]

\* time.Since(startTime): the model keeps no clock.
Latency == [type |-> "duration", v |-> <<>>]

Init ==
    /\ logger \in LoggerConfigs
    /\ logRequestDetails \in BOOLEAN
    /\ logCompleteTime \in BOOLEAN
    /\ \E bypassList \in MiddlewareBypassLists :
          compiledBypassList = compileBypassPatterns(bypassList)
    /\ pc = [r \in Reqs |-> "idle"]
    /\ request = [r \in Reqs |-> NoRequest]
    /\ ctx = [r \in Reqs |-> Background]
    /\ shouldSkipLogging = [r \in Reqs |-> FALSE]
    /\ manualLogs = [r \in Reqs |-> 0]
    /\ records = [r \in Reqs |-> <<>>]
    /\ call = NoCall
    /\ heap = <<>>
    /\ held = <<>>
    /\ loggerInstance = NilLogger

\* The wrapped handler func up to its call of next.ServeHTTP(w, r).
ServeHTTP(r) ==
    /\ pc[r] = "idle"
    /\ \E req \in Requests :
        LET requestId == GenerateRequestID(logger, r)
            skip == shouldBypassMiddlewareLogging(compiledBypassList, req.Path, req.Method)
            c == requestContext(logger, Background, requestId, skip)
        IN /\ request' = [request EXCEPT ![r] = req]
           /\ ctx' = withContext(ctx, r, c)
           /\ shouldSkipLogging' = [shouldSkipLogging EXCEPT ![r] = skip]
           /\ \E fixedOrder \in RangeOrders(logger.fixedKeyValues),
                 extraOrder \in RangeOrders(GetExtraFields(logger, c).pairs) :
                 records' = IF logsIncoming(logRequestDetails, skip)
                            THEN [records EXCEPT ![r] =
                                     Append(@, Infow(logger, c, "Incoming request",
                                                     <<<<"details", requestData(req)>>>>, TRUE,
                                                     fixedOrder, extraOrder))]
                            ELSE records
    /\ pc' = [pc EXCEPT ![r] = "handler"]
    /\ UNCHANGED <<logger, logRequestDetails, logCompleteTime, compiledBypassList,
                   manualLogs, call, contextVars, loggerInstance>>

\* The next handler logs with the context it was passed (logger.Info(r.Context(), ...)).
HandlerLog(r) ==
    /\ pc[r] = "handler"
    /\ manualLogs[r] < MaxManualLogs
    /\ manualLogs' = [manualLogs EXCEPT ![r] = @ + 1]
    /\ \E fixedOrder \in RangeOrders(logger.fixedKeyValues),
          extraOrder \in RangeOrders(GetExtraFields(logger, ctx[r]).pairs) :
          records' = [records EXCEPT ![r] =
                         Append(@, Infow(logger, ctx[r], "manual log", <<>>, FALSE,
                                         fixedOrder, extraOrder))]
    /\ UNCHANGED <<logger, logRequestDetails, logCompleteTime, compiledBypassList, pc,
                   request, ctx, shouldSkipLogging, call, contextVars, loggerInstance>>

\* next.ServeHTTP returns: the rest of the wrapped handler func.
HandlerReturn(r) ==
    /\ pc[r] = "handler"
    /\ pc' = [pc EXCEPT ![r] = "done"]
    /\ \E fixedOrder \in RangeOrders(logger.fixedKeyValues),
          extraOrder \in RangeOrders(GetExtraFields(logger, ctx[r]).pairs) :
          records' = IF logsCompleted(logCompleteTime, shouldSkipLogging[r])
                     THEN [records EXCEPT ![r] =
                              Append(@, Infow(logger, ctx[r], "Request completed",
                                              <<<<"latency", Latency>>>>, TRUE,
                                              fixedOrder, extraOrder))]
                     ELSE records
    /\ UNCHANGED <<logger, logRequestDetails, logCompleteTime, compiledBypassList,
                   request, ctx, shouldSkipLogging, manualLogs, call, contextVars, loggerInstance>>

\* A mutant of HandlerPanic: the completion record is emitted all the same,
\* as a deferred call would.
HandlerPanicDeferred(r) ==
    /\ pc[r] = "handler"
    /\ pc' = [pc EXCEPT ![r] = "panicked"]
    /\ \E fixedOrder \in RangeOrders(logger.fixedKeyValues),
          extraOrder \in RangeOrders(GetExtraFields(logger, ctx[r]).pairs) :
          records' = IF logsCompleted(logCompleteTime, shouldSkipLogging[r])
                     THEN [records EXCEPT ![r] =
                              Append(@, Infow(logger, ctx[r], "Request completed",
                                              <<<<"latency", Latency>>>>, TRUE,
                                              fixedOrder, extraOrder))]
                     ELSE records
    /\ UNCHANGED <<logger, logRequestDetails, logCompleteTime, compiledBypassList,
                   request, ctx, shouldSkipLogging, manualLogs, call, contextVars, loggerInstance>>

\* next.ServeHTTP panics: the middleware recovers nothing, and the rest of
\* the wrapped handler func does not run.
HandlerPanic(r) ==
    /\ pc[r] = "handler"
    /\ pc' = [pc EXCEPT ![r] = "panicked"]
    /\ UNCHANGED <<logger, logRequestDetails, logCompleteTime, compiledBypassList,
                   request, ctx, shouldSkipLogging, manualLogs, records, call, contextVars, loggerInstance>>

Next ==
    \E r \in Reqs :
        \/ ServeHTTP(r)
        \/ HandlerLog(r)
        \/ HandlerReturn(r)
        \/ HandlerPanic(r)

Spec == Init /\ [][Next]_vars

(***************************************************************************)
(* Handlers that bind values of their own: while it runs, the handler of   *)
(* request r may call SetRequestID and SetUser on the context of its       *)
(* request and go on with the context returned, and log with it.  The two  *)
(* calls are one step: the context between them is a local of the handler. *)
(***************************************************************************)
\* The user and the request id the handler of request r binds.
HandlerUser(r) == StringValue(<<"u", DigitChars[r]>>)
HandlerRequestID(r) == <<"c", DigitChars[r]>>

InitConcurrent ==
    /\ logger \in LoggerConfigs
    /\ logRequestDetails = TRUE
    /\ logCompleteTime = TRUE
    /\ compiledBypassList = compileBypassPatterns(<<>>)
    /\ pc = [r \in Reqs |-> "idle"]
    /\ request = [r \in Reqs |-> NoRequest]
    /\ ctx = [r \in Reqs |-> Background]
    /\ shouldSkipLogging = [r \in Reqs |-> FALSE]
    /\ manualLogs = [r \in Reqs |-> 0]
    /\ records = [r \in Reqs |-> <<>>]
    /\ call = NoCall
    /\ heap = <<>>
    /\ held = <<>>
    /\ loggerInstance = NilLogger

\* ctx := logger.SetUser(logger.SetRequestID(r.Context(), id), user)
HandlerSetValues(r) ==
    /\ pc[r] = "handler"
    /\ ~GetUser(ctx[r]).ok
    /\ ctx' = withContext(ctx, r, SetUser(SetRequestID(ctx[r], HandlerRequestID(r)),
                                          HandlerUser(r)))
    /\ UNCHANGED <<logger, logRequestDetails, logCompleteTime, compiledBypassList, pc,
                   request, shouldSkipLogging, manualLogs, records, call, contextVars, loggerInstance>>

NextConcurrent ==
    \E r \in Reqs :
        \/ ServeHTTP(r)
        \/ HandlerSetValues(r)
        \/ HandlerLog(r)
        \/ HandlerReturn(r)

SpecConcurrent == InitConcurrent /\ [][NextConcurrent]_vars

\* The state of the middleware when only a pure function is exercised.
MiddlewareIdle ==
    /\ logger = [requestIDPrefix |-> <<>>, fixedKeyValues |-> <<>>, extraFields |-> <<>>,
                 devMode |-> FALSE]
    /\ logRequestDetails = FALSE
    /\ logCompleteTime = FALSE
    /\ compiledBypassList = <<>>
    /\ pc = [r \in Reqs |-> "idle"]
    /\ request = [r \in Reqs |-> NoRequest]
    /\ ctx = [r \in Reqs |-> Background]
    /\ shouldSkipLogging = [r \in Reqs |-> FALSE]
    /\ manualLogs = [r \in Reqs |-> 0]
    /\ records = [r \in Reqs |-> <<>>]
    /\ heap = <<>>
    /\ held = <<>>
    /\ loggerInstance = NilLogger

(***************************************************************************)
(* The bypass decision on its own: LoggerMiddleware compiles the rule list *)
(* (line 243), then each request asks shouldBypassMiddlewareLogging.       *)
(***************************************************************************)
MaxRules == 2

sMetricsOrHealth == sMetrics \o <<"|">> \o sHealth
sSlashAll == <<"/", "*", "*">>

\* Rules written by hand, of both dialects, with and without a method filter.
SampleRules ==
    { BypassRule(sHealth, <<>>, FALSE),
      BypassRule(sMetricsRegex, sGET, TRUE),
      BypassRule(sSlashAll, sPOST, FALSE),
      BypassRule(<<"(">>, <<>>, TRUE),
      BypassRule(sMetricsOrHealth, sGetPost, TRUE) }

SamplePaths == {sHealth, sMetrics, sMetricsExtra, sOther}
SampleMethods == {sGET, sPOST, sGetLower}

\* Regular-expression rules over literals, classes, groups, alternation and
\* repetition, and the paths they are tried on.
RegexPatternChars == {"a", "b", "|", "*", "(", ")", "[", "]"}
RegexPatterns == Strs(RegexPatternChars, MaxRegexLen)
RegexPaths == Strs({"a", "b"}, MaxPathLen)

BypassCalls ==
    {[fn |-> "shouldBypassMiddlewareLogging", bypassList |-> bl, path |-> p, method |-> m] :
        bl \in UNION {[1..n -> SampleRules] : n \in 0..MaxRules},
        p \in SamplePaths, m \in SampleMethods}
    \cup
    {[fn |-> "shouldBypassMiddlewareLogging", bypassList |-> <<BypassRule(re, <<>>, TRUE)>>,
      path |-> p, method |-> sGET] :
        re \in RegexPatterns, p \in RegexPaths}

InitBypass ==
    /\ MiddlewareIdle
    /\ \E c \in BypassCalls :
          call = [fn |-> c.fn, bypassList |-> c.bypassList, path |-> c.path,
                  method |-> c.method, stage |-> "new", compiled |-> <<>>, result |-> FALSE]

\* compiledBypassList := compileBypassPatterns(bypassList)
CallCompileBypassPatterns ==
    /\ call.stage = "new"
    /\ call' = [call EXCEPT !.stage = "compiled",
                            !.compiled = compileBypassPatterns(call.bypassList)]
    /\ UNCHANGED <<middlewareVars, contextVars, loggerInstance>>

\* shouldSkipLogging := shouldBypassMiddlewareLogging(compiledBypassList, path, method)
CallShouldBypass ==
    /\ call.stage = "compiled"
    /\ call' = [call EXCEPT !.stage = "done",
                            !.result = shouldBypassMiddlewareLogging(call.compiled, call.path,
                                                                     call.method)]
    /\ UNCHANGED <<middlewareVars, contextVars, loggerInstance>>

NextBypass == CallCompileBypassPatterns \/ CallShouldBypass

SpecBypass == InitBypass /\ [][NextBypass]_vars

(***************************************************************************)
(* The glob matcher on its own.                                            *)
(***************************************************************************)
sABC == <<"/","a","/","b","/","c">>
sABDC == <<"/","a","/","b","/","d","/","c">>
sAStarC == <<"/","a","/","*","/","c">>
sADoubleStar == <<"/","a","/","*","*">>
sA == <<"/","a">>
sAB == <<"/","a","/","b">>
sDoubleStar == <<"*","*">>
sUseQrStar == <<"u","s","e","?","r","*">>
sUser123 == <<"u","s","e","r","1","2","3">>
sUsar == <<"u","s","a","r">>
sUse_12 == <<"u","s","e","_","1","2">>
sUsexr == <<"u","s","e","x","r">>
sUserr123 == <<"u","s","e","r","r","1","2","3">>

GlobPatterns ==
    Strs({"/", "a", "*", "?"}, MaxGlobLen) \cup {sAStarC, sADoubleStar, sDoubleStar \o sA}
GlobPaths == Strs({"/", "a", "b"}, MaxPathLen) \cup {sABC, sABDC, sAB, sHealth}
SegmentPatterns == Strs({"a", "*", "?"}, MaxGlobLen) \cup {sUseQrStar}
Segments == Strs({"a", "b", "*"}, MaxPathLen) \cup {sUser123, sUsar, sUse_12, sUsexr, sUserr123}

InitGlob ==
    /\ MiddlewareIdle
    /\ \/ \E p \in GlobPatterns, q \in GlobPaths :
             call = [fn |-> "matchAntPattern", pattern |-> p, str |-> q,
                     done |-> FALSE, result |-> FALSE]
       \/ \E p \in SegmentPatterns, q \in Segments :
             call = [fn |-> "matchSegment", pattern |-> p, str |-> q,
                     done |-> FALSE, result |-> FALSE]

CallMatchAntPattern ==
    /\ call.fn = "matchAntPattern" /\ ~call.done
    /\ call' = [call EXCEPT !.done = TRUE, !.result = matchAntPattern(call.pattern, call.str)]
    /\ UNCHANGED <<middlewareVars, contextVars, loggerInstance>>

CallMatchSegment ==
    /\ call.fn = "matchSegment" /\ ~call.done
    /\ call' = [call EXCEPT !.done = TRUE, !.result = matchSegment(call.pattern, call.str)]
    /\ UNCHANGED <<middlewareVars, contextVars, loggerInstance>>

NextGlob == CallMatchAntPattern \/ CallMatchSegment

SpecGlob == InitGlob /\ [][NextGlob]_vars

(***************************************************************************)
(* The method filter on its own.                                           *)
(***************************************************************************)
sGetSpacePost == <<"G","E","T",","," ","P","O","S","T">>

MethodsStrings == Strs({"G", "g", "P", ",", " "}, MaxMethodsLen) \cup {sGetPost, sGetSpacePost, sGET}
MethodStrings == Strs({"G", "g", "P", " "}, 2) \cup {sGET, sGetLower, sPOST, sDELETE}

InitMethod ==
    /\ MiddlewareIdle
    /\ \E ms \in MethodsStrings, m \in MethodStrings :
          call = [fn |-> "matchMethod", methods |-> ms, method |-> m,
                  done |-> FALSE, result |-> FALSE]

CallMatchMethod ==
    /\ call.fn = "matchMethod" /\ ~call.done
    /\ call' = [call EXCEPT !.done = TRUE, !.result = matchMethod(call.methods, call.method)]
    /\ UNCHANGED <<middlewareVars, contextVars, loggerInstance>>

NextMethod == CallMatchMethod

SpecMethod == InitMethod /\ [][NextMethod]_vars

(***************************************************************************)
(* The client IP resolution on its own.                                    *)
(***************************************************************************)
MaxHeaderLen == 2

IPRequests ==
    {[Method |-> sGET, Path |-> sOther, RemoteAddr |-> addr,
      Header |-> [h \in {"X-Forwarded-For", "X-Real-IP", "X-Client-IP"} |->
                    CASE h = "X-Forwarded-For" -> xff
                      [] h = "X-Real-IP" -> xri
                      [] h = "X-Client-IP" -> xci]] :
        xff \in Strs({"1", ",", " "}, MaxHeaderLen),
        xri \in {<<>>, <<"2">>},
        xci \in {<<>>, <<"3">>},
        addr \in Strs({"4", ":", "[", "]"}, MaxAddrLen)}

InitIP ==
    /\ MiddlewareIdle
    /\ \E r \in IPRequests :
          call = [fn |-> "getRealUserIP", r |-> r, done |-> FALSE, result |-> <<>>]

CallGetRealUserIP ==
    /\ call.fn = "getRealUserIP" /\ ~call.done
    /\ call' = [call EXCEPT !.done = TRUE, !.result = getRealUserIP(call.r)]
    /\ UNCHANGED <<middlewareVars, contextVars, loggerInstance>>

NextIP == CallGetRealUserIP

SpecIP == InitIP /\ [][NextIP]_vars

(***************************************************************************)
(* The context functions on their own: a call takes a context (its chain   *)
(* of overlays), and for combineAttributes and DetachContext a Logger.     *)
(***************************************************************************)
MaxRebinds == 1
MaxFixedKeys == 2
MaxExtraFields == 2

IntValue(n) == [type |-> "int", v |-> n]

\* Request ids callers pass to SetRequestID, the empty string among them.
RequestIds == {<<>>, <<"r">>}

\* Users callers pass to SetUser (user any), nil among them.
UserValues == {Nil, StringValue(<<"u">>), IntValue(7)}

\* A key of a type of the caller's own (type traceKey string): a different
\* key from the string and from the contextKey of the same text.
CallerKey(name) == [type |-> "callerKey", name |-> name]

\* The overlays a caller can have put on a context: through SetRequestID,
\* through SetUser, and through context.WithValue with a field name or with
\* a key of its own.
Overlays ==
    {[key |-> requestIdKey, val |-> StringValue(id)] : id \in RequestIds}
    \cup {[key |-> userKey, val |-> u] : u \in UserValues}
    \cup {[key |-> StringKey("x"), val |-> v] : v \in {StringValue(<<"v">>), Nil}}
    \cup {[key |-> StringKey("y"), val |-> StringValue(<<"w">>)]}
    \cup {[key |-> CallerKey("x"), val |-> StringValue(<<"t">>)]}

\* The contexts the functions are called with: any of a request id, a user
\* and the two fields bound, and then up to MaxRebinds overlays on top, which
\* bind a key anew or again.
BoundOrNot(key, val) == {<<>>, <<[key |-> key, val |-> val]>>}
BaseContexts ==
    {a \o b \o c \o d :
        a \in BoundOrNot(requestIdKey, StringValue(<<"r">>)),
        b \in BoundOrNot(userKey, StringValue(<<"u">>)),
        c \in BoundOrNot(StringKey("x"), StringValue(<<"v">>)),
        d \in BoundOrNot(StringKey("y"), StringValue(<<"w">>))}
Contexts ==
    {base \o top : base \in BaseContexts,
                   top \in UNION {[1..n -> Overlays] : n \in 0..MaxRebinds}}

\* FixedKeyValues of up to MaxFixedKeys entries.
FixedKeyNames == <<"service", "env", "zone", "host">>
FixedKeyValuesMaps ==
    {[k \in {FixedKeyNames[i] : i \in 1..n} |-> StringValue(<<"f">>)] : n \in 0..MaxFixedKeys}

\* ExtraFields of up to MaxExtraFields names, a repeated name among them.
ExtraFieldsNames == <<"x", "y", "x", "y">>
ExtraFieldsLists == {SubSeq(ExtraFieldsNames, 1, n) : n \in 0..MaxExtraFields}

AttrLoggers ==
    {[requestIDPrefix |-> <<>>, fixedKeyValues |-> m, extraFields |-> e, devMode |-> FALSE] :
        m \in FixedKeyValuesMaps, e \in ExtraFieldsLists}

\* The caller's keysAndValues.
KeysAndValuesLists == {<<>>, <<<<"k", StringValue(<<"c">>)>>>>}

NoResult == [ok |-> FALSE]

\* The calls made on the contexts given.
AttrCalls(contexts) ==
    {[fn |-> "SetRequestID", ctx |-> c, requestId |-> id, done |-> FALSE,
      before |-> NoResult, after |-> NoResult] : c \in contexts, id \in RequestIds}
    \cup {[fn |-> "SetUser", ctx |-> c, user |-> u, done |-> FALSE,
           before |-> NoResult, after |-> NoResult] : c \in contexts, u \in UserValues}
    \cup {[fn |-> "combineAttributes", l |-> l, ctx |-> c, keysAndValues |-> kv,
           done |-> FALSE, result |-> <<>>] :
              l \in AttrLoggers, c \in contexts, kv \in KeysAndValuesLists}
    \cup {[fn |-> "DetachContext", l |-> l, ctx |-> c, done |-> FALSE, result |-> Background] :
              l \in AttrLoggers, c \in contexts}

InitAttrs ==
    /\ MiddlewareIdle
    /\ call \in AttrCalls(Contexts)

\* ctx2 := l.SetRequestID(ctx, id), with l.GetRequestID asked of ctx and of ctx2
CallSetRequestID ==
    /\ call.fn = "SetRequestID" /\ ~call.done
    /\ call' = [call EXCEPT !.done = TRUE,
                            !.before = GetRequestID(call.ctx),
                            !.after = GetRequestID(SetRequestID(call.ctx, call.requestId))]
    /\ UNCHANGED <<middlewareVars, contextVars, loggerInstance>>

\* ctx2 := l.SetUser(ctx, user), with l.GetUser asked of ctx and of ctx2
CallSetUser ==
    /\ call.fn = "SetUser" /\ ~call.done
    /\ call' = [call EXCEPT !.done = TRUE,
                            !.before = GetUser(call.ctx),
                            !.after = GetUser(SetUser(call.ctx, call.user))]
    /\ UNCHANGED <<middlewareVars, contextVars, loggerInstance>>

CallCombineAttributes ==
    /\ call.fn = "combineAttributes" /\ ~call.done
    /\ \E fixedOrder \in RangeOrders(call.l.fixedKeyValues),
          extraOrder \in RangeOrders(GetExtraFields(call.l, call.ctx).pairs) :
          call' = [call EXCEPT !.done = TRUE,
                               !.result = combineAttributes(call.l, call.ctx, call.keysAndValues,
                                                            fixedOrder, extraOrder)]
    /\ UNCHANGED <<middlewareVars, contextVars, loggerInstance>>

CallDetachContext ==
    /\ call.fn = "DetachContext" /\ ~call.done
    /\ \E extraOrder \in RangeOrders(GetExtraFields(call.l, call.ctx).pairs) :
          call' = [call EXCEPT !.done = TRUE,
                               !.result = DetachContext(call.l, call.ctx, extraOrder)]
    /\ UNCHANGED <<middlewareVars, contextVars, loggerInstance>>

NextAttrs == CallSetRequestID \/ CallSetUser \/ CallCombineAttributes \/ CallDetachContext

SpecAttrs == InitAttrs /\ [][NextAttrs]_vars

(***************************************************************************)
(* The context tree.  heap holds the contexts allocated so far, each with  *)
(* a pointer to its parent; context number 0 is context.Background().  A   *)
(* valueCtx carries one key and value; a cancelCtx (context.WithCancel,    *)
(* context.WithTimeout) carries its own done flag, and is done as soon as  *)
(* it or one of its ancestors is.  Callers derive contexts from the ones   *)
(* they hold, cancel them, and let their timers fire, in any order.        *)
(***************************************************************************)
MaxCalls == 3

ValueCtx(parent, key, val) ==
    [kind |-> "value", parent |-> parent, key |-> key, val |-> val,
     timer |-> FALSE, done |-> FALSE]

CancelCtx(parent, timer, done) ==
    [kind |-> "cancel", parent |-> parent, key |-> Nil, val |-> Nil,
     timer |-> timer, done |-> done]

\* The overlays of context c, from context.Background() outward.
RECURSIVE Chain(_, _)
Chain(h, c) ==
    IF c = 0 THEN Background
    ELSE IF h[c].kind = "value" THEN WithValue(Chain(h, h[c].parent), h[c].key, h[c].val)
    ELSE Chain(h, h[c].parent)

\* The contexts c is derived from, c itself among them.
RECURSIVE Ancestors(_, _)
Ancestors(h, c) == IF c = 0 THEN {} ELSE {c} \cup Ancestors(h, h[c].parent)

\* <-ctx.Done() is ready
Done(h, c) == \E a \in Ancestors(h, c) : h[a].done

\* _, ok := ctx.Deadline()
HasDeadline(h, c) == \E a \in Ancestors(h, c) : h[a].timer

\* A mutant of valueCtx: a key that an ancestor already binds is overwritten
\* there.
valueCtxInPlace(h, parent, key, val) ==
    Append([i \in 1..Len(h) |->
               IF i \in Ancestors(h, parent) /\ h[i].kind = "value" /\ h[i].key = key
               THEN [h[i] EXCEPT !.val = val] ELSE h[i]],
           ValueCtx(parent, key, val))

\* context.WithValue(parent, key, val): the heap with the new valueCtx, which
\* is its last context.
valueCtx(h, parent, key, val) == Append(h, ValueCtx(parent, key, val))

\* The overlays put one after another on context root.
RECURSIVE WithValues(_, _, _)
WithValues(h, root, overlays) ==
    IF overlays = <<>> THEN h
    ELSE WithValues(valueCtx(h, root, overlays[1].key, overlays[1].val),
                    Len(h) + 1, Tail(overlays))

\* A mutant of DetachRoot: the copy is derived from ctx.
DetachRootIsCtx(c) == c

\* newCtx := context.Background()
DetachRoot(c) == 0

\* A mutant of TimeoutParent: the timeout is put on ctx.
TimeoutParentIsCtx(detachedCtx, c) == c

\* context.WithTimeout(detachedCtx, timeout)
TimeoutParent(detachedCtx, c) == detachedCtx

\* The timeouts callers pass: none left, or some.
Timeouts == {0, 1}

\* The numbers contexts can have: a call allocates at most three (a request
\* id, a user and a timer; the Logger here has no extra fields).
ContextIds == 0..(3 * MaxCalls)

\* The contexts a caller holds.
HeldContexts == {0} \cup {held[k].result : k \in 1..Len(held)}

\* A call that returned context result, with what the getters say of it.
Returned(fn, c, result, h) ==
    [fn |-> fn, ctx |-> c, result |-> result,
     requestId |-> GetRequestID(Chain(h, result)), user |-> GetUser(Chain(h, result))]

InitContext ==
    /\ MiddlewareIdle
    /\ call = NoCall

CtxSetRequestID(c) ==
    /\ Len(held) < MaxCalls
    /\ c \in HeldContexts
    /\ LET requestId == <<"r", DigitChars[Len(held) + 1]>>
           h == valueCtx(heap, c, requestIdKey, StringValue(requestId))
       IN /\ heap' = h
          /\ held' = Append(held, Returned("SetRequestID", c, Len(h), h))
    /\ UNCHANGED <<middlewareVars, call, loggerInstance>>

CtxSetUser(c) ==
    /\ Len(held) < MaxCalls
    /\ c \in HeldContexts
    /\ \E user \in {StringValue(<<"u", DigitChars[Len(held) + 1]>>), Nil} :
          LET h == valueCtx(heap, c, userKey, user)
          IN /\ heap' = h
             /\ held' = Append(held, Returned("SetUser", c, Len(h), h))
    /\ UNCHANGED <<middlewareVars, call, loggerInstance>>

\* The caller's own context.WithCancel(ctx), or with timer its own
\* context.WithTimeout(ctx, d): the contexts requests come with.
CtxWithCancel(c) ==
    /\ Len(held) < MaxCalls
    /\ c \in HeldContexts
    /\ \E timer \in BOOLEAN :
          LET h == Append(heap, CancelCtx(c, timer, FALSE))
          IN /\ heap' = h
             /\ held' = Append(held, Returned("WithCancel", c, Len(h), h))
    /\ UNCHANGED <<middlewareVars, call, loggerInstance>>

CtxDetachContext(c) ==
    /\ Len(held) < MaxCalls
    /\ c \in HeldContexts
    /\ \E extraOrder \in RangeOrders(GetExtraFields(logger, Chain(heap, c)).pairs) :
          LET overlays == DetachContext(logger, Chain(heap, c), extraOrder)
              h == WithValues(heap, DetachRoot(c), overlays)
              result == IF overlays = <<>> THEN DetachRoot(c) ELSE Len(h)
          IN /\ heap' = h
             /\ held' = Append(held, Returned("DetachContext", c, result, h))
    /\ UNCHANGED <<middlewareVars, call, loggerInstance>>

\* l.WithTimeout(ctx, timeout); a timeout that is already over returns a
\* context that is done.
CtxWithTimeout(c) ==
    /\ Len(held) < MaxCalls
    /\ c \in HeldContexts
    /\ \E timeout \in Timeouts,
          extraOrder \in RangeOrders(GetExtraFields(logger, Chain(heap, c)).pairs) :
          LET overlays == DetachContext(logger, Chain(heap, c), extraOrder)
              h1 == WithValues(heap, DetachRoot(c), overlays)
              detachedCtx == IF overlays = <<>> THEN DetachRoot(c) ELSE Len(h1)
              h == Append(h1, CancelCtx(TimeoutParent(detachedCtx, c), TRUE, timeout <= 0))
          IN /\ heap' = h
             /\ held' = Append(held, Returned("WithTimeout", c, Len(h), h))
    /\ UNCHANGED <<middlewareVars, call, loggerInstance>>

\* The cancel function returned together with context c is called.
Cancel(c) ==
    /\ c \in HeldContexts \ {0}
    /\ heap[c].kind = "cancel"
    /\ ~heap[c].done
    /\ heap' = [heap EXCEPT ![c].done = TRUE]
    /\ UNCHANGED <<middlewareVars, call, held, loggerInstance>>

\* The timer of context c fires.
Expire(c) ==
    /\ c \in HeldContexts \ {0}
    /\ heap[c].kind = "cancel"
    /\ heap[c].timer
    /\ ~heap[c].done
    /\ heap' = [heap EXCEPT ![c].done = TRUE]
    /\ UNCHANGED <<middlewareVars, call, held, loggerInstance>>

NextContext ==
    \E c \in ContextIds :
        \/ CtxSetRequestID(c)
        \/ CtxSetUser(c)
        \/ CtxWithCancel(c)
        \/ CtxDetachContext(c)
        \/ CtxWithTimeout(c)
        \/ Cancel(c)
        \/ Expire(c)

SpecContext == InitContext /\ [][NextContext]_vars

(***************************************************************************)
(* The global logger.  The package keeps one *Logger, loggerInstance; the  *)
(* program calls InitGlobalLogger, DestroyGlobalLogger and GetGlobalLogger *)
(* one after another, in any order.  call is the last call made, with its  *)
(* number, what loggerInstance was before it, and what it returned;        *)
(* installed tells whether an InitGlobalLogger has returned nil (no error) *)
(* since the last DestroyGlobalLogger, or since the start.                 *)
(***************************************************************************)
MaxGlobalCalls == 5

\* NewLogger(config): loggerConfig.Build fails (err) or not; on success the
\* Logger is a new allocation, number id.
NewLogger(config, id, err) ==
    IF err THEN [logger |-> NilLogger, err |-> TRUE]
    ELSE [logger |-> LoggerAt(id, config), err |-> FALSE]

\* A mutant of installOnInit: the result of NewLogger is assigned before the
\* error is looked at.
installAlways(instance, new) == new.logger

\* if err != nil { return err }; loggerInstance = gLogger
installOnInit(instance, new) == IF new.err THEN instance ELSE new.logger

NoGlobalCall ==
    [fn |-> "none", n |-> 0, err |-> FALSE, before |-> NilLogger, result |-> NilLogger,
     flushed |-> NilLogger, installed |-> FALSE]

InitGlobal ==
    /\ MiddlewareIdle
    /\ call = NoGlobalCall

CallInitGlobalLogger ==
    /\ call.n < MaxGlobalCalls
    /\ \E config \in LoggerConfigs, err \in BOOLEAN :
          LET new == NewLogger(config, call.n + 1, err) IN
          /\ loggerInstance' = installOnInit(loggerInstance, new)
          /\ call' = [fn |-> "InitGlobalLogger", n |-> call.n + 1, err |-> new.err,
                      before |-> loggerInstance, result |-> NilLogger,
                      flushed |-> NilLogger,
                      installed |-> IF new.err THEN call.installed ELSE TRUE]
    /\ UNCHANGED <<middlewareVars, contextVars>>

\* flushed is the Logger whose Flush was called, if any.
CallDestroyGlobalLogger ==
    /\ call.n < MaxGlobalCalls
    /\ loggerInstance' = NilLogger
    /\ call' = [fn |-> "DestroyGlobalLogger", n |-> call.n + 1, err |-> FALSE,
                before |-> loggerInstance, result |-> NilLogger,
                flushed |-> IF loggerInstance # NilLogger THEN loggerInstance ELSE NilLogger,
                installed |-> FALSE]
    /\ UNCHANGED <<middlewareVars, contextVars>>

CallGetGlobalLogger ==
    /\ call.n < MaxGlobalCalls
    /\ call' = [fn |-> "GetGlobalLogger", n |-> call.n + 1, err |-> FALSE,
                before |-> loggerInstance, result |-> loggerInstance,
                flushed |-> NilLogger, installed |-> call.installed]
    /\ UNCHANGED <<middlewareVars, contextVars, loggerInstance>>

NextGlobal == CallInitGlobalLogger \/ CallDestroyGlobalLogger \/ CallGetGlobalLogger

SpecGlobal == InitGlobal /\ [][NextGlobal]_vars

(***************************************************************************)
(* Properties.                                                             *)
(***************************************************************************)
\* The records the middleware itself emitted for request r, in order.
AutoRecords(r) == SelectSeq(records[r], LAMBDA rec : rec.auto)

\* The records the handler of request r emitted.
ManualRecords(r) == SelectSeq(records[r], LAMBDA rec : ~rec.auto)

\* Whether the bypass registry matches request r's path and method.
Bypassed(r) ==
    shouldBypassMiddlewareLogging(compiledBypassList, request[r].Path, request[r].Method)

\* Whether one compiled rule accepts the method and matches the path in its
\* own dialect.
RuleMatches(rule, path, method) ==
    /\ matchMethod(rule.Methods, method)
    /\ IF rule.IsRegex THEN matchRegex(rule, path) ELSE matchAntPattern(rule.Path, path)

\* All orderings of a sequence.
Orderings(l) ==
    {[i \in 1..Len(l) |-> l[f[i]]] :
        f \in {g \in [1..Len(l) -> 1..Len(l)] :
                 \A a, b \in 1..Len(l) : a # b => g[a] # g[b]}}

\* Whether the regular expression re matches all of s, from its first to its
\* last character.
FullMatch(re, s) == Len(s) \in MatchEnds(re, s, 0)

\* C1: a bypassed request gets no automatic record, whatever the two flags
\* are; a request that is not bypassed and was served to the end with both
\* flags enabled gets exactly two, "Incoming request" then "Request completed".
C1_AutomaticRecords ==
    \A r \in Reqs :
        pc[r] # "idle" =>
            /\ Bypassed(r) => Len(AutoRecords(r)) = 0
            /\ (~Bypassed(r) /\ logRequestDetails /\ logCompleteTime /\ pc[r] = "done") =>
                  /\ Len(AutoRecords(r)) = 2
                  /\ AutoRecords(r)[1].msg = "Incoming request"
                  /\ AutoRecords(r)[2].msg = "Request completed"

\* With both flags enabled, one request was bypassed and served to the end
\* and another was not bypassed and served to the end.
C1_Witness ==
    /\ logRequestDetails /\ logCompleteTime
    /\ \E r1, r2 \in Reqs :
          /\ pc[r1] = "done" /\ Bypassed(r1) /\ Len(AutoRecords(r1)) = 0
          /\ pc[r2] = "done" /\ ~Bypassed(r2) /\ Len(AutoRecords(r2)) = 2

\* C2: every request the handler was called with, bypassed or not, has a
\* non-empty request id bound in its context, and every record the handler
\* logs with that context carries it under "request_id".
C2_RequestIdBound ==
    \A r \in Reqs :
        pc[r] # "idle" =>
            LET rid == GetRequestID(ctx[r]) IN
            /\ rid.ok
            /\ rid.requestId # <<>>
            /\ \A i \in 1..Len(ManualRecords(r)) :
                  \E k \in 1..Len(ManualRecords(r)[i].attrs) :
                      ManualRecords(r)[i].attrs[k] =
                          <<requestIdContextKey, StringValue(rid.requestId)>>

\* A bypassed request of a logger with no request id prefix whose handler
\* logged.
C2_Witness ==
    \E r \in Reqs :
        /\ pc[r] = "done" /\ Bypassed(r) /\ logger.requestIDPrefix = <<>>
        /\ Len(ManualRecords(r)) > 0

\* C3 as stated: with the scenario's registry GET /health, GET /metrics and
\* POST /metrics bypass, and GET /metrics/extra and GET /other do not.
C3_ScenarioAsStated ==
    (call.stage = "done" /\ call.bypassList = ScenarioRegistry) =>
        /\ (call.method = sGET /\ call.path = sHealth) => call.result
        /\ (call.method = sGET /\ call.path = sMetrics) => call.result
        /\ (call.method = sPOST /\ call.path = sMetrics) => call.result
        /\ (call.method = sGET /\ call.path = sMetricsExtra) => ~call.result
        /\ (call.method = sGET /\ call.path = sOther) => ~call.result

\* C3, amended: with the scenario's registry GET /health and GET /metrics
\* bypass; POST /metrics (the regex rule is for GET only), GET
\* /metrics/extra and GET /other do not.
C3_Scenario ==
    (call.stage = "done" /\ call.bypassList = ScenarioRegistry) =>
        /\ (call.method = sGET /\ call.path = sHealth) => call.result
        /\ (call.method = sGET /\ call.path = sMetrics) => call.result
        /\ (call.method = sPOST /\ call.path = sMetrics) => ~call.result
        /\ (call.method = sGET /\ call.path = sMetricsExtra) => ~call.result
        /\ (call.method = sGET /\ call.path = sOther) => ~call.result

\* The scenario's registry was asked about POST /metrics and did not bypass.
C3_Witness ==
    /\ call.stage = "done" /\ call.bypassList = ScenarioRegistry
    /\ call.method = sPOST /\ call.path = sMetrics /\ ~call.result

\* C4: the bypass decision is true iff some rule of the list accepts the
\* method and matches the path in its own dialect; every ordering of the
\* rule list gives the same decision.
C4_ExistentialOr ==
    call.stage = "done" =>
        /\ call.result = (\E i \in 1..Len(call.compiled) :
                              RuleMatches(call.compiled[i], call.path, call.method))
        /\ \A l \in Orderings(call.bypassList) :
              shouldBypassMiddlewareLogging(compileBypassPatterns(l), call.path, call.method)
                  = call.result

\* A list of two rules whose first rule rejects the method and whose second
\* rule matches.
C4_Witness ==
    /\ call.stage = "done" /\ Len(call.compiled) = 2 /\ call.result
    /\ ~matchMethod(call.compiled[1].Methods, call.method)
    /\ RuleMatches(call.compiled[2], call.path, call.method)

\* C5: a regex rule whose pattern compiles bypasses a path only if the
\* pattern matches the whole path.
C5_RegexAnchored ==
    (/\ call.stage = "done"
     /\ Len(call.bypassList) = 1
     /\ call.bypassList[1].IsRegex
     /\ ~Compile(call.bypassList[1].Path).err
     /\ call.result)
        => FullMatch(Compile(call.bypassList[1].Path).re, call.path)

C7_GlobCases ==
    (call.fn = "matchAntPattern" /\ call.done) =>
        /\ call.pattern = sDoubleStar => call.result
        /\ (call.pattern = sAStarC /\ call.str = sABC) => call.result
        /\ (call.pattern = sAStarC /\ call.str = sABDC) => ~call.result
        /\ (call.pattern = sADoubleStar /\ call.str \in {sA, sAB, sABC}) => call.result

\* "/a/**" was matched against "/a".
C7_Witness ==
    /\ call.fn = "matchAntPattern" /\ call.done
    /\ call.pattern = sADoubleStar /\ call.str = sA /\ call.result

\* C8 as stated: "use?r*" matches "user123" and "usar" and not "use_12".
C8_SegmentAsStated ==
    (call.fn = "matchSegment" /\ call.done /\ call.pattern = sUseQrStar) =>
        /\ call.str \in {sUser123, sUsar} => call.result
        /\ call.str = sUse_12 => ~call.result

\* C8, amended: "use?r*" matches none of "user123", "usar" and "use_12"; it
\* matches "usexr" and "userr123".
C8_Segment ==
    (call.fn = "matchSegment" /\ call.done /\ call.pattern = sUseQrStar) =>
        /\ call.str \in {sUser123, sUsar, sUse_12} => ~call.result
        /\ call.str \in {sUsexr, sUserr123} => call.result

\* "use?r*" was matched against "userr123".
C8_Witness ==
    /\ call.fn = "matchSegment" /\ call.done
    /\ call.pattern = sUseQrStar /\ call.str = sUserr123 /\ call.result

\* C9 as stated: the method is accepted iff Methods is empty or one of its
\* comma-separated entries equals the method, ignoring case.
C9_MethodFilterAsStated ==
    (call.fn = "matchMethod" /\ call.done) =>
        LET entries == Split(call.methods, ",") IN
        call.result = (\/ call.methods = <<>>
                       \/ \E i \in 1..Len(entries) : EqualFold(entries[i], call.method))

\* C9, amended: the method is accepted iff Methods is empty or one of its
\* comma-separated entries, with the white space around it removed, equals
\* the method, ignoring case; "GET,POST" accepts "get" and rejects "DELETE".
C9_MethodFilter ==
    (call.fn = "matchMethod" /\ call.done) =>
        LET entries == Split(call.methods, ",") IN
        /\ call.result = (\/ call.methods = <<>>
                          \/ \E i \in 1..Len(entries) :
                                EqualFold(TrimSpace(entries[i]), call.method))
        /\ (call.methods = sGetPost /\ call.method = sGetLower) => call.result
        /\ (call.methods = sGetPost /\ call.method = sDELETE) => ~call.result
        /\ call.methods = <<>> => call.result

\* "GET, POST" was asked about "POST": the second entry, once trimmed.
C9_Witness ==
    /\ call.fn = "matchMethod" /\ call.done
    /\ call.methods = sGetSpacePost /\ call.method = sPOST /\ call.result

\* C10: the client IP is the first non-empty one of: the trimmed first entry
\* of X-Forwarded-For, X-Real-IP, X-Client-IP; else the host part of
\* RemoteAddr, or RemoteAddr itself when no host part can be extracted.
C10_FirstNonEmptyWins ==
    (call.fn = "getRealUserIP" /\ call.done) =>
        LET a == TrimSpace(Split(HeaderGet(call.r, "X-Forwarded-For"), ",")[1])
            b == HeaderGet(call.r, "X-Real-IP")
            c == HeaderGet(call.r, "X-Client-IP")
            hp == SplitHostPort(call.r.RemoteAddr)
        IN call.result = IF a # <<>> THEN a
                         ELSE IF b # <<>> THEN b
                         ELSE IF c # <<>> THEN c
                         ELSE IF ~hp.err THEN hp.host
                         ELSE call.r.RemoteAddr

\* Whether some overlay of context c has the key.
KeySet(c, key) == \E i \in 1..Len(c) : c[i].key = key

\* C11: on a context where the key was not set before, the getter finds
\* nothing, and after the setter stored v the getter returns (v, true): for
\* the request id with any string, for the user with any value.
C11_RoundTrip ==
    /\ (call.fn = "SetRequestID" /\ call.done /\ ~KeySet(call.ctx, requestIdKey)) =>
          /\ ~call.before.ok
          /\ call.after = [requestId |-> call.requestId, ok |-> TRUE]
    /\ (call.fn = "SetUser" /\ call.done /\ ~KeySet(call.ctx, userKey)) =>
          /\ ~call.before.ok
          /\ call.after = [user |-> call.user, ok |-> TRUE]

\* C13: combineAttributes returns the fixed pairs (in some order), then the
\* request id pair if a request id is present, then the user pair if a user
\* is present, then the pairs of the extra fields that are present (in some
\* order), then the caller's pairs unchanged; an absent group adds nothing.
C13_AttributeOrder ==
    (call.fn = "combineAttributes" /\ call.done) =>
        LET res == call.result
            fixed == {<<k, call.l.fixedKeyValues[k]>> : k \in DOMAIN call.l.fixedKeyValues}
            rid == Value(call.ctx, requestIdKey)
            ridPairs == IF rid.type = "string" THEN <<<<"request_id", rid>>>> ELSE <<>>
            usr == Value(call.ctx, userKey)
            usrPairs == IF usr # Nil THEN <<<<"user", usr>>>> ELSE <<>>
            extra == {<<call.l.extraFields[i], Value(call.ctx, StringKey(call.l.extraFields[i]))>> :
                         i \in {j \in 1..Len(call.l.extraFields) :
                                   Value(call.ctx, StringKey(call.l.extraFields[j])) # Nil}}
            n1 == Cardinality(fixed)
            n2 == n1 + Len(ridPairs)
            n3 == n2 + Len(usrPairs)
            n4 == n3 + Cardinality(extra)
        IN /\ Len(res) = n4 + Len(call.keysAndValues)
           /\ {res[i] : i \in 1..n1} = fixed
           /\ SubSeq(res, n1 + 1, n2) = ridPairs
           /\ SubSeq(res, n2 + 1, n3) = usrPairs
           /\ {res[i] : i \in (n3 + 1)..n4} = extra
           /\ SubSeq(res, n4 + 1, Len(res)) = call.keysAndValues

\* combineAttributes was called with all five groups present: two fixed
\* pairs, a request id, a user, two extra fields and a caller's pair.
C13_Witness ==
    /\ call.fn = "combineAttributes" /\ call.done
    /\ Cardinality(DOMAIN call.l.fixedKeyValues) = 2
    /\ GetRequestID(call.ctx).ok /\ GetUser(call.ctx).ok
    /\ Cardinality(DOMAIN GetExtraFields(call.l, call.ctx).pairs) = 2
    /\ Len(call.keysAndValues) = 1
    /\ Len(call.result) = 7

\* C14: GetRequestID, GetUser and GetExtraFields return on DetachContext(c)
\* what they return on c, value and found flag.
C14_DetachCopies ==
    (call.fn = "DetachContext" /\ call.done) =>
        /\ GetRequestID(call.result) = GetRequestID(call.ctx)
        /\ GetUser(call.result) = GetUser(call.ctx)
        /\ GetExtraFields(call.l, call.result) = GetExtraFields(call.l, call.ctx)

\* A context with a request id, a user and an extra field was detached.
C14_Witness ==
    /\ call.fn = "DetachContext" /\ call.done
    /\ GetRequestID(call.ctx).ok /\ GetUser(call.ctx).ok
    /\ GetExtraFields(call.l, call.ctx).ok
    /\ DOMAIN GetExtraFields(call.l, call.ctx).pairs # {}
    /\ Len(call.result) = 3
    /\ call.result # call.ctx

\* What the getters say of context c now.
Gets(c) == [requestId |-> GetRequestID(Chain(heap, c)), user |-> GetUser(Chain(heap, c))]

\* C12: every context obtained earlier still returns what it returned when
\* it was obtained, whatever was derived since; and a context returns for a
\* key the value of the most recent Set of that key along its own chain: the
\* context a Set returned holds the value set, and for the other key what
\* its parent holds.
C12_NoMutationLastWriterWins ==
    \A k \in 1..Len(held) :
        LET c == held[k].result IN
        /\ Gets(c) = [requestId |-> held[k].requestId, user |-> held[k].user]
        /\ held[k].fn = "SetRequestID" =>
              /\ Gets(c).requestId = [requestId |-> heap[c].val.v, ok |-> TRUE]
              /\ Gets(c).user = Gets(held[k].ctx).user
        /\ held[k].fn = "SetUser" =>
              /\ Gets(c).user.user = heap[c].val
              /\ Gets(c).requestId = Gets(held[k].ctx).requestId

\* A request id was set on a context and set again on the context derived
\* from it: the first context holds the first id, the second the second.
C12_Witness ==
    \E j, k \in 1..Len(held) :
        /\ held[j].fn = "SetRequestID" /\ held[k].fn = "SetRequestID"
        /\ held[k].ctx = held[j].result
        /\ Gets(held[j].result).requestId.requestId = <<"r", DigitChars[j]>>
        /\ Gets(held[k].result).requestId.requestId = <<"r", DigitChars[k]>>

\* C15: the context DetachContext returned is never done and has no
\* deadline, and its logging values stay what they were, whether the context
\* it was detached from is cancelled or expires before or after the call.
C15_DetachedNeverDone ==
    \A k \in 1..Len(held) :
        held[k].fn = "DetachContext" =>
            /\ ~Done(heap, held[k].result)
            /\ ~HasDeadline(heap, held[k].result)
            /\ Gets(held[k].result) = [requestId |-> held[k].requestId, user |-> held[k].user]
            /\ Gets(held[k].result) = Gets(held[k].ctx)

\* A context with a logging value was detached, and the context it was
\* detached from is done.
C15_Witness ==
    \E k \in 1..Len(held) :
        /\ held[k].fn = "DetachContext"
        /\ Done(heap, held[k].ctx)
        /\ Gets(held[k].result).requestId.ok \/ Gets(held[k].result).user.ok

\* C16: the context WithTimeout(ctx, d) returned is done exactly when its
\* own timeout is over or its own cancel function was called; no step in
\* which ctx becomes done makes it done, and no step in which it becomes
\* done makes ctx done.
C16_TimeoutIndependent ==
    [][\A k \in 1..Len(held) :
          held[k].fn = "WithTimeout" =>
              LET c == held[k].result IN
              /\ Done(heap, c) = heap[c].done
              /\ Done(heap', c) = heap'[c].done
              /\ (~Done(heap, held[k].ctx) /\ Done(heap', held[k].ctx)) =>
                    Done(heap', c) = Done(heap, c)
              /\ (~Done(heap, c) /\ Done(heap', c)) =>
                    Done(heap', held[k].ctx) = Done(heap, held[k].ctx)]_vars

\* WithTimeout was called on a cancellable context that carries a request
\* id; that context is done and the returned one is not, or the other way
\* round.
C16_Witness ==
    \E k \in 1..Len(held) :
        /\ held[k].fn = "WithTimeout"
        /\ held[k].ctx # 0 /\ held[k].requestId.ok
        /\ Done(heap, held[k].ctx) # Done(heap, held[k].result)

\* The values of the attributes with the given key in the records of
\* request r.
AttrValues(r, key) ==
    UNION {{records[r][i].attrs[k][2] :
               k \in {j \in 1..Len(records[r][i].attrs) : records[r][i].attrs[j][1] = key}} :
           i \in 1..Len(records[r])}

\* C17: in every interleaving of the requests, each record logged with the
\* context of request r carries as request id the id the middleware
\* generated for r or the one r's handler set, and as user the one r's
\* handler set: never a value bound for another request.
C17_NoCrossRequestValues ==
    \A r \in Reqs :
        /\ AttrValues(r, "request_id") \subseteq
              {StringValue(GenerateRequestID(logger, r)), StringValue(HandlerRequestID(r))}
        /\ AttrValues(r, "user") \subseteq {HandlerUser(r)}
        /\ \A i \in 1..Len(records[r]) :
              \E k \in 1..Len(records[r][i].attrs) :
                  records[r][i].attrs[k][1] = "request_id"

\* Two requests are in their handlers at once, each has bound a user and a
\* request id of its own, and each has logged since the other bound its.
C17_Witness ==
    \E r1, r2 \in Reqs :
        /\ r1 # r2
        /\ pc[r1] = "handler" /\ pc[r2] = "handler"
        /\ AttrValues(r1, "user") = {HandlerUser(r1)}
        /\ AttrValues(r2, "user") = {HandlerUser(r2)}
        /\ StringValue(HandlerRequestID(r1)) \in AttrValues(r1, "request_id")
        /\ StringValue(HandlerRequestID(r2)) \in AttrValues(r2, "request_id")

\* Whether the path segments can be shared out among the pattern segments
\* in order: a "**" takes any number of consecutive segments, none included,
\* and any other pattern segment takes one segment that it matches.
RECURSIVE Partitions(_, _)
Partitions(patternParts, pathParts) ==
    IF patternParts = <<>> THEN pathParts = <<>>
    ELSE IF Head(patternParts) = <<"*", "*">>
    THEN \E n \in 0..Len(pathParts) :
            Partitions(Tail(patternParts), SubSeq(pathParts, n + 1, Len(pathParts)))
    ELSE /\ pathParts # <<>>
         /\ matchSegment(Head(patternParts), Head(pathParts))
         /\ Partitions(Tail(patternParts), Tail(pathParts))

\* C18: matchAntPattern returns true exactly when, both strings trimmed of
\* leading and trailing "/" and split on "/", the path segments can be
\* shared out among the pattern segments, "**" taking zero or more and every
\* other pattern segment exactly one that it matches, all consumed.
C18_AntAgreesWithDefinition ==
    (call.fn = "matchAntPattern" /\ call.done) =>
        call.result = Partitions(Split(Trim(call.pattern, {"/"}), "/"),
                                 Split(Trim(call.str, {"/"}), "/"))

\* A pattern whose "**" is not its last segment matched a path of which the
\* "**" took no segment.
C18_Witness ==
    /\ call.fn = "matchAntPattern" /\ call.done /\ call.result
    /\ LET patternParts == Split(Trim(call.pattern, {"/"}), "/")
           pathParts == Split(Trim(call.str, {"/"}), "/")
       IN /\ Len(patternParts) = 2 /\ Len(pathParts) = 1
          /\ patternParts[1] = <<"*", "*">> /\ patternParts[2] # <<"*", "*">>

\* Whether str comes from pattern by putting one character for each "?"
\* and any characters, none included, for each "*".
RECURSIVE Produces(_, _)
Produces(pattern, str) ==
    IF pattern = <<>> THEN str = <<>>
    ELSE IF Head(pattern) = "*"
    THEN \E n \in 0..Len(str) : Produces(Tail(pattern), SubSeq(str, n + 1, Len(str)))
    ELSE /\ str # <<>>
         /\ Head(pattern) = "?" \/ Head(pattern) = Head(str)
         /\ Produces(Tail(pattern), Tail(str))

\* C19: matchWildcard returns true exactly when the segment comes from the
\* pattern by replacing each "?" with one character and each "*" with zero
\* or more characters, every other character standing for itself.
C19_WildcardAgreesWithReference ==
    (call.fn = "matchSegment" /\ call.done) =>
        /\ matchWildcard(call.pattern, call.str) = Produces(call.pattern, call.str)
        /\ call.result = Produces(call.pattern, call.str)

\* The places in the records of request r of the middleware's own records
\* with the given message.
Places(r, msg) == {i \in 1..Len(records[r]) : records[r][i].auto /\ records[r][i].msg = msg}

\* C20: for a request that is not bypassed, with both flags enabled: once
\* the handler has been invoked "Incoming request" is the request's first
\* record; "Request completed" is there only once the handler has
\* returned, and is then the last record, after "Incoming request"; each
\* is there at most once.
C20_ReceivedThenCompleted ==
    \A r \in Reqs :
        (logRequestDetails /\ logCompleteTime /\ pc[r] # "idle" /\ ~Bypassed(r)) =>
            /\ Places(r, "Incoming request") = {1}
            /\ pc[r] # "done" => Places(r, "Request completed") = {}
            /\ pc[r] = "done" =>
                  /\ Places(r, "Request completed") = {Len(records[r])}
                  /\ Len(records[r]) > 1

\* A request that is not bypassed, with both flags enabled, was served to
\* the end and its handler logged in between.
C20_Witness ==
    \E r \in Reqs :
        /\ pc[r] = "done" /\ ~Bypassed(r) /\ logRequestDetails /\ logCompleteTime
        /\ Len(records[r]) = 3
        /\ records[r][1].msg = "Incoming request"
        /\ ~records[r][2].auto
        /\ records[r][3].msg = "Request completed"

\* The keys DetachContext copies for Logger l.
LoggingKeys(l) ==
    {requestIdKey, userKey} \cup {StringKey(l.extraFields[i]) : i \in 1..Len(l.extraFields)}

\* The keys context c holds a value under.
BoundKeys(c) == {c[i].key : i \in 1..Len(c)}

\* C21: a value stored in c under a key other than the request id key, the
\* user key and the names of the Logger's extra fields is not found in
\* DetachContext(c).
C21_DetachCarriesNothingElse ==
    (call.fn = "DetachContext" /\ call.done) =>
        \A key \in BoundKeys(call.ctx) \ LoggingKeys(call.l) :
            Value(call.result, key) = Nil

\* A context that holds a value under a key of the caller's own and under a
\* field name the Logger was not configured with, besides a request id and a
\* configured field that are copied, was detached.
C21_Witness ==
    /\ call.fn = "DetachContext" /\ call.done
    /\ call.l.extraFields = <<"x">>
    /\ Value(call.ctx, CallerKey("x")) # Nil
    /\ Value(call.ctx, StringKey("y")) # Nil
    /\ Value(call.result, StringKey("x")) # Nil
    /\ GetRequestID(call.result).ok

\* C22: a request whose handler panicked has no "Request completed" record,
\* also with completion logging enabled and the request not bypassed; and
\* if request logging is enabled and the request is not bypassed, its
\* "Incoming request" record is still there, as its first record.
C22_PanicSkipsCompletion ==
    \A r \in Reqs :
        pc[r] = "panicked" =>
            /\ Places(r, "Request completed") = {}
            /\ (logRequestDetails /\ ~Bypassed(r)) => Places(r, "Incoming request") = {1}

\* With both flags enabled, the handler of a request that is not bypassed
\* logged and then panicked, while another such request was served to the
\* end and has its completion record.
C22_Witness ==
    /\ logRequestDetails /\ logCompleteTime
    /\ \E r, q \in Reqs :
          /\ pc[r] = "panicked" /\ ~Bypassed(r)
          /\ Len(records[r]) = 2
          /\ records[r][1].msg = "Incoming request"
          /\ pc[q] = "done" /\ ~Bypassed(q)
          /\ Places(q, "Request completed") # {}

\* C23: GetGlobalLogger returns a Logger that is not nil exactly if an
\* InitGlobalLogger has succeeded since the last DestroyGlobalLogger; an
\* InitGlobalLogger that returns an error leaves loggerInstance as it was;
\* and DestroyGlobalLogger with no Logger installed changes nothing and
\* flushes nothing.
C23_GlobalLifecycle ==
    /\ (loggerInstance # NilLogger) <=> call.installed
    /\ call.fn = "GetGlobalLogger" =>
          /\ call.result = loggerInstance
          /\ (call.result # NilLogger) <=> call.installed
    /\ (call.fn = "InitGlobalLogger" /\ call.err) => loggerInstance = call.before
    /\ (call.fn = "InitGlobalLogger" /\ ~call.err) =>
          loggerInstance # NilLogger /\ loggerInstance.id = call.n
    /\ (call.fn = "DestroyGlobalLogger" /\ call.before = NilLogger) =>
          loggerInstance = call.before /\ call.flushed = NilLogger

\* An InitGlobalLogger failed while a Logger was installed that a call
\* later than the first had installed.
C23_Witness ==
    /\ call.fn = "InitGlobalLogger" /\ call.err
    /\ call.before # NilLogger /\ call.before.id > 1
    /\ loggerInstance = call.before

====
